---- MODULE Spec2Model ----
(***************************************************************************)
(* A model of the async helpers of atron-js (src/fetch): parallel, retry,  *)
(* sequence, timeout, batch, getJSON and postJSON, and of tryCatch         *)
(* (src/handlers).  Each call is a state machine over its closure          *)
(* variables; the                                                          *)
(* caller-supplied tasks are the environment, which settles every pending  *)
(* task promise in any order.  A promise reaction (.then / .catch handler, *)
(* or the continuation after an await) is one atomic step, as on the       *)
(* single-threaded JavaScript job queue.                                   *)
(***************************************************************************)
EXTENDS Integers, Sequences, FiniteSets, TLC

\* ------------------------------------------------------------------ bounds
MaxTasks == 3
MaxLimit == 2
MaxAttempts == 3
MaxItems == 4
MaxSize == 5
MaxPairTasks == 2

\* `limit = Infinity`, the default of parallel: larger than any task count.
Infinity == 1000000

\* Values a task may produce and failures it may raise.  "undefined" is the
\* rejection reason of Promise.reject(), a nullish value.
Values == {"v1", "v2"}
Errors == {"e1", "e2", "undefined"}

\* A hole of `new Array(n)`, and the absent value of an unset field.
Empty == "<empty>"
None == "<none>"

LimitError == "limit must be greater than 0"
AttemptsError == "attempts must be greater than 0"
GenericRetryError == "retry failed without an explicit error"

VARIABLES par, rt, sq, tm, bt, gj, tc

vars == <<par, rt, sq, tm, bt, gj, tc>>

\* What a step of one call leaves alone: the state of the other calls.
notPar == <<rt, sq, tm, bt, gj, tc>>
notRt == <<par, sq, tm, bt, gj, tc>>
notSq == <<par, rt, tm, bt, gj, tc>>
notTm == <<par, rt, sq, bt, gj, tc>>
notBt == <<par, rt, sq, tm, gj, tc>>
notGj == <<par, rt, sq, tm, bt, tc>>
notTc == <<par, rt, sq, tm, bt, gj>>

\* ---------------------------------------------------------------- promises
\* The promise a call returns: pending, then settled once.
PendingPromise == [state |-> "pending", value |-> None]

\* resolve(v) / reject(e) of a promise: only the first settlement counts.
Resolve(p, v) ==
  IF p.state = "pending" THEN [state |-> "fulfilled", value |-> v] ELSE p

Reject(p, e) ==
  IF p.state = "pending" THEN [state |-> "rejected", value |-> e] ELSE p

\* ------------------------------------------------------------------- tasks
\* A task is a zero-argument function returning a promise.  Invoked, it
\*   "resolve": returns a promise that later fulfils with val,
\*   "reject" : returns a promise that later rejects with val,
\*   "throw"  : throws val synchronously, before returning a promise.
TaskKinds ==
  [kind : {"resolve"}, val : Values] \cup [kind : {"reject", "throw"}, val : Errors]

TaskLists == UNION {[1..n -> TaskKinds] : n \in 0..MaxTasks}

Limits == (-1..MaxLimit) \cup {Infinity}

\* ---------------------------------------------------------------- parallel
\* The state of one parallel(tasks, limit) call (JS index k is position k+1):
\*   pc      "init" before the call, "called" after its synchronous part
\*   results the preallocated result array
\*   index   number of tasks taken from the list so far (the next JS index)
\*   active  the in-flight counter of the closure
\*   task    per task: "unstarted", "pending" (invoked, promise unsettled),
\*           "fulfilled", "rejected" or "thrown"
\*   started the positions of the tasks in the order they were invoked
\*   settled the positions of the tasks in the order they settled
\*   promise the promise returned to the caller; fulfilled, it holds the
\*           results array
ParallelInit(tasks, limit) ==
  [ pc      |-> "init",
    tasks   |-> tasks,
    limit   |-> limit,
    results |-> [i \in 1..Len(tasks) |-> Empty],
    index   |-> 0,
    active  |-> 0,
    task    |-> [i \in 1..Len(tasks) |-> "unstarted"],
    started |-> <<>>,
    settled |-> <<>>,
    promise |-> PendingPromise ]

\* Tasks invoked and not yet settled.
InFlight(s) == {i \in DOMAIN s.task : s.task[i] = "pending"}

\* resolve(results) hands the caller the array itself, not a copy.
ResultsRef == "results"

\* Mutant: the loop takes the tasks from the end of the list.
InvokeNext_FromTheEnd(s) ==
  LET currentIndex == Len(s.tasks) - s.index
      t == s.tasks[currentIndex]
  IN [s EXCEPT !.index = s.index + 1,
               !.active = s.active + 1,
               !.started = Append(s.started, currentIndex),
               !.settled = IF t.kind = "throw" THEN Append(s.settled, currentIndex)
                           ELSE s.settled,
               !.task[currentIndex] =
                  IF t.kind = "throw" THEN "thrown" ELSE "pending"]

\* One iteration of the body of the while loop: take the next task, count it
\* in flight and invoke it.
InvokeNext(s) ==
  LET currentIndex == s.index + 1
      t == s.tasks[currentIndex]
  IN [s EXCEPT !.index = s.index + 1,
               !.active = s.active + 1,
               !.started = Append(s.started, currentIndex),
               !.settled = IF t.kind = "throw" THEN Append(s.settled, currentIndex)
                           ELSE s.settled,
               !.task[currentIndex] =
                  IF t.kind = "throw" THEN "thrown" ELSE "pending"]

\* Mutant: the loop ignores the ceiling.
LoopGuard_NoLimit(s) == s.index < Len(s.tasks)

\* The guard of the while loop.
LoopGuard(s) == s.active < s.limit /\ s.index < Len(s.tasks)

\* while (active < limit && index < tasks.length) { ... }.  A task that throws
\* synchronously ends the loop; the exception reaches reject() through the
\* promise executor (first call) or the .catch handler (later calls).
RECURSIVE StartLoop(_)
StartLoop(s) ==
  IF ~LoopGuard(s) THEN s
  ELSE LET n == InvokeNext(s)
           t == s.tasks[s.index + 1]
       IN IF t.kind = "throw"
          THEN [n EXCEPT !.promise = Reject(n.promise, t.val)]
          ELSE StartLoop(n)

\* Mutant: completion is tested on the index alone.
AllDone_IgnoresActive(s) == s.index >= Len(s.tasks)

\* The completion test at the head of runNext.
AllDone(s) == s.index >= Len(s.tasks) /\ s.active = 0

\* Mutant: runNext fills the slots and never makes the completion test.
RunNext_NoCompletionTest(s) == StartLoop(s)

\* runNext(): resolve when everything is done, otherwise fill the free slots.
RunNext(s) ==
  IF AllDone(s)
  THEN [s EXCEPT !.promise = Resolve(s.promise, ResultsRef)]
  ELSE StartLoop(s)

\* Mutant: the handler records the result and frees the slot but does not
\* go on to the next task.
ThenHandler_NoRefill(s, i, v) ==
  [s EXCEPT !.results[i] = v, !.active = s.active - 1]

\* Mutant: results are stored in completion order.
ThenHandler_CompletionOrder(s, i, v) ==
  RunNext([s EXCEPT !.results[Len(s.settled)] = v, !.active = s.active - 1])

\* The .then handler of the task at position i, fulfilled with v.
ThenHandler(s, i, v) ==
  RunNext([s EXCEPT !.results[i] = v, !.active = s.active - 1])

\* Mutant: the handler gives the failed task's slot back.
CatchHandler_ReleasesSlot(s, i, e) ==
  [s EXCEPT !.promise = Reject(s.promise, e), !.active = s.active - 1]

\* Mutant: the failure is reported only once nothing else is in flight.
CatchHandler_WaitsForOthers(s, i, e) ==
  IF InFlight(s) = {} THEN [s EXCEPT !.promise = Reject(s.promise, e)] ELSE s

\* The .catch handler of the task at position i, rejected with e.
CatchHandler(s, i, e) ==
  [s EXCEPT !.promise = Reject(s.promise, e)]

\* Mutant: a limit of 0 passes the check.
CallParallel_AllowsZero(s) ==
  IF s.limit < 0
  THEN [s EXCEPT !.pc = "called", !.promise = Reject(s.promise, LimitError)]
  ELSE RunNext([s EXCEPT !.pc = "called"])

\* Mutant: the executor fills the slots without the completion test, which
\* is then made only when a task completes.
CallParallel_NoFirstTest(s) ==
  IF s.limit <= 0
  THEN [s EXCEPT !.pc = "called", !.promise = Reject(s.promise, LimitError)]
  ELSE StartLoop([s EXCEPT !.pc = "called"])

\* The synchronous part of the call: the limit check, then the executor.
CallParallel(s) ==
  IF s.limit <= 0
  THEN [s EXCEPT !.pc = "called", !.promise = Reject(s.promise, LimitError)]
  ELSE RunNext([s EXCEPT !.pc = "called"])

\* What the caller of a fulfilled run reads: the results array as it is now.
Delivered(s) == s.results

\* The promise of the task at position i settles in state st.
Settle(s, i, st) ==
  [s EXCEPT !.task[i] = st, !.settled = Append(s.settled, i)]

\* Mutant: the in-flight counter is one variable shared by all runs.
TaskFulfil_SharedCounter(r, i) ==
  /\ par[r].task[i] = "pending"
  /\ par[r].tasks[i].kind = "resolve"
  /\ par' = [q \in DOMAIN par |->
               IF q = r
               THEN ThenHandler(Settle(par[r], i, "fulfilled"), i, par[r].tasks[i].val)
               ELSE [par[q] EXCEPT !.active = par[q].active - 1]]
  /\ UNCHANGED notPar

ParallelCall(r) ==
  /\ par[r].pc = "init"
  /\ par' = [par EXCEPT ![r] = CallParallel(par[r])]
  /\ UNCHANGED notPar

TaskFulfil(r, i) ==
  /\ par[r].task[i] = "pending"
  /\ par[r].tasks[i].kind = "resolve"
  /\ par' = [par EXCEPT ![r] =
               ThenHandler(Settle(par[r], i, "fulfilled"),
                           i, par[r].tasks[i].val)]
  /\ UNCHANGED notPar

TaskReject(r, i) ==
  /\ par[r].task[i] = "pending"
  /\ par[r].tasks[i].kind = "reject"
  /\ par' = [par EXCEPT ![r] =
               CatchHandler(Settle(par[r], i, "rejected"),
                            i, par[r].tasks[i].val)]
  /\ UNCHANGED notPar

\* ------------------------------------------------------------------- retry
\* What one invocation of fn ends in.  A synchronous throw of fn is caught by
\* the same catch block as a rejection of the awaited promise, so both are
\* the outcome "reject".
FnOutcomes == [kind : {"resolve"}, val : Values] \cup [kind : {"reject"}, val : Errors]

Attempts == -1..MaxAttempts

\* delayMs: negative, the default 0, and a positive delay.
Delays == {-5, 0, 10}

\* `x ?? y` takes y exactly when x is null or undefined.
Nullish(x) == x \in {"undefined", "null"}

\* The state of one retry(fn, attempts, delayMs) call:
\*   pc        "init" before the call, "awaitFn" suspended in `await fn()`,
\*             "sleeping" suspended in `await sleep(delayMs)`, "done" returned
\*   i         the loop counter
\*   lastError the variable of that name (declared without initialiser)
\*   trace     what the call did to its environment, in order: "call" (fn
\*             invoked), "settle" (that invocation's outcome o), "sleep" (a
\*             timer of ms set), "wake" (the timer fired)
\*   promise   the promise returned to the caller
RetryInit(attempts, delayMs) ==
  [ pc        |-> "init",
    attempts  |-> attempts,
    delayMs   |-> delayMs,
    i         |-> 0,
    lastError |-> "undefined",
    trace     |-> <<>>,
    promise   |-> PendingPromise ]

RetryIdle == RetryInit(1, 0)

\* The statement after the loop: throw lastError ?? new Error(...).
ThrowLast(s) ==
  [s EXCEPT !.pc = "done",
            !.promise = Reject(s.promise,
                               IF Nullish(s.lastError) THEN GenericRetryError
                               ELSE s.lastError)]

\* The head of the for loop: another attempt while i < attempts.
LoopHead(s) ==
  IF s.i < s.attempts
  THEN [s EXCEPT !.pc = "awaitFn", !.trace = Append(s.trace, [ev |-> "call"])]
  ELSE ThrowLast(s)

\* Mutant: an attempt budget of 0 passes the check.
CallRetry_AllowsZero(s) ==
  IF s.attempts < 0
  THEN [s EXCEPT !.pc = "done", !.promise = Reject(s.promise, AttemptsError)]
  ELSE LoopHead([s EXCEPT !.i = 0])

\* The synchronous part of the call: the attempts check, then the first pass
\* of the loop.
CallRetry(s) ==
  IF s.attempts <= 0
  THEN [s EXCEPT !.pc = "done", !.promise = Reject(s.promise, AttemptsError)]
  ELSE LoopHead([s EXCEPT !.i = 0])

\* Mutant: the catch block sleeps after the final attempt too.
ShouldSleep_AfterLastToo(s) == s.delayMs > 0

\* The condition under which the catch block sleeps.
ShouldSleep(s) == s.i < s.attempts - 1 /\ s.delayMs > 0

\* The i++ of the loop and the next pass.
NextPass(s) == LoopHead([s EXCEPT !.i = s.i + 1])

\* Mutant: the awaited value is not returned and the loop goes on.
ReturnValue_LoopsOn(s, v) == NextPass(s)

\* `return await fn()` when fn's promise fulfils with v.
ReturnValue(s, v) ==
  [s EXCEPT !.pc = "done", !.promise = Resolve(s.promise, v)]

\* The catch block when the attempt fails with e.
CatchBlock(s, e) ==
  LET c == [s EXCEPT !.lastError = e]
  IN IF ShouldSleep(c)
     THEN [c EXCEPT !.pc = "sleeping",
                    !.trace = Append(c.trace, [ev |-> "sleep", ms |-> c.delayMs])]
     ELSE NextPass(c)

\* The continuation after `await sleep(delayMs)`.
AfterSleep(s) ==
  NextPass([s EXCEPT !.trace = Append(s.trace, [ev |-> "wake"])])

RetryCall ==
  /\ rt.pc = "init"
  /\ rt' = CallRetry(rt)
  /\ UNCHANGED notRt

FnFulfil ==
  /\ rt.pc = "awaitFn"
  /\ \E v \in Values :
       rt' = ReturnValue(
               [rt EXCEPT !.trace = Append(rt.trace,
                   [ev |-> "settle", o |-> [kind |-> "resolve", val |-> v]])], v)
  /\ UNCHANGED notRt

FnReject ==
  /\ rt.pc = "awaitFn"
  /\ \E e \in Errors :
       rt' = CatchBlock(
               [rt EXCEPT !.trace = Append(rt.trace,
                   [ev |-> "settle", o |-> [kind |-> "reject", val |-> e]])], e)
  /\ UNCHANGED notRt

SleepElapsed ==
  /\ rt.pc = "sleeping"
  /\ rt' = AfterSleep(rt)
  /\ UNCHANGED notRt

\* ---------------------------------------------------------------- sequence
\* The state of one sequence(tasks) call:
\*   pc      "init" before the call, "awaiting" suspended in `await task()`,
\*           "done" returned or thrown
\*   results the array the loop pushes to
\*   pos     the position of the task awaited (0 before the first)
\*   task, started, settled, promise: as for parallel
SequenceInit(tasks) ==
  [ pc      |-> "init",
    tasks   |-> tasks,
    results |-> <<>>,
    pos     |-> 0,
    task    |-> [i \in 1..Len(tasks) |-> "unstarted"],
    started |-> <<>>,
    settled |-> <<>>,
    promise |-> PendingPromise ]

SequenceIdle == SequenceInit(<<>>)

\* Mutant: a failure ends the call with the results gathered so far.
SeqThrow_PartialResults(s, e) ==
  [s EXCEPT !.pc = "done", !.promise = Resolve(s.promise, ResultsRef)]

\* An exception leaves the async function: its promise rejects with it.
SeqThrow(s, e) ==
  [s EXCEPT !.pc = "done", !.promise = Reject(s.promise, e)]

\* Mutant: the task after the awaited one is invoked ahead of time.
SeqInvoke_Eager(s, k) ==
  LET n == [s EXCEPT !.pos = k, !.pc = "awaiting", !.task[k] = "pending",
                     !.started = Append(s.started, k)]
  IN IF k + 1 <= Len(s.tasks)
     THEN [n EXCEPT !.task[k + 1] = "pending", !.started = Append(n.started, k + 1)]
     ELSE n

\* `task()` for the task at position k: it returns a promise to await, or
\* throws.
SeqInvoke(s, k) ==
  LET t == s.tasks[k]
      n == [s EXCEPT !.pos = k, !.started = Append(s.started, k)]
  IN IF t.kind = "throw"
     THEN SeqThrow([n EXCEPT !.task[k] = "thrown",
                             !.settled = Append(n.settled, k)], t.val)
     ELSE [n EXCEPT !.pc = "awaiting", !.task[k] = "pending"]

\* The head of `for (const task of tasks)`: the next task, or
\* `return results` after the last.
SeqLoop(s) ==
  IF s.pos < Len(s.tasks)
  THEN SeqInvoke(s, s.pos + 1)
  ELSE [s EXCEPT !.pc = "done", !.promise = Resolve(s.promise, ResultsRef)]

\* Mutant: the awaited value is put at the front of the results.
SeqResume_Unshift(s, v) ==
  SeqLoop([s EXCEPT !.results = <<v>> \o s.results])

\* The continuation of `results.push(await task())` with the value v.
SeqResume(s, v) ==
  SeqLoop([s EXCEPT !.results = Append(s.results, v)])

\* What the caller of a fulfilled sequence reads.
SeqDelivered(s) == s.results

SequenceCall ==
  /\ sq.pc = "init"
  /\ sq' = SeqLoop(sq)
  /\ UNCHANGED notSq

SeqTaskFulfil ==
  /\ sq.pc = "awaiting"
  /\ \E i \in DOMAIN sq.task :
       /\ sq.task[i] = "pending"
       /\ sq.tasks[i].kind = "resolve"
       /\ sq' = IF i = sq.pos
                THEN SeqResume(Settle(sq, i, "fulfilled"), sq.tasks[i].val)
                ELSE Settle(sq, i, "fulfilled")
  /\ UNCHANGED notSq

SeqTaskReject ==
  /\ sq.pc = "awaiting"
  /\ \E i \in DOMAIN sq.task :
       /\ sq.task[i] = "pending"
       /\ sq.tasks[i].kind = "reject"
       /\ sq' = IF i = sq.pos
                THEN SeqThrow(Settle(sq, i, "rejected"), sq.tasks[i].val)
                ELSE Settle(sq, i, "rejected")
  /\ UNCHANGED notSq

\* ----------------------------------------------------------------- timeout
\* ms of a timeout call: negative, zero and positive (setTimeout accepts all).
TimeoutDurations == {-5, 0, 10, 250}

\* The message argument: left out, or supplied by the caller.
TimeoutMessages == {"undefined", "too slow"}

\* The default value of the parameter: `Operation timed out after ${ms}ms`.
DefaultTimeoutMessage(ms) == "Operation timed out after " \o ToString(ms) \o "ms"

\* The state of one timeout(promise, ms, message) call:
\*   pc      "init" before the call, "called" after it
\*   op      the promise passed in (the raced operation), settled by its owner
\*   timer   "unset", "armed" (setTimeout), "fired" or "cleared" (clearTimeout)
\*   events  what happened, in order: "op" (the operation settled), "timer"
\*           (the timer fired)
\*   promise the promise returned to the caller; an Error object is
\*           represented by its message
TimeoutInit(ms, message) ==
  [ pc      |-> "init",
    ms      |-> ms,
    message |-> message,
    op      |-> PendingPromise,
    timer   |-> "unset",
    events  |-> <<>>,
    promise |-> PendingPromise ]

TimeoutIdle == TimeoutInit(0, "undefined")

\* Mutant: the supplied message is ignored.
TimeoutMessage_AlwaysDefault(t) == DefaultTimeoutMessage(t.ms)

\* The message of the timeout error: a default parameter takes its default
\* exactly when the argument is undefined.
TimeoutMessage(t) ==
  IF t.message = "undefined" THEN DefaultTimeoutMessage(t.ms) ELSE t.message

\* clearTimeout(timer): disarms an armed timer, otherwise does nothing.
ClearTimer(t) ==
  [t EXCEPT !.timer = IF t.timer = "armed" THEN "cleared" ELSE t.timer]

\* Mutant: the timer callback also cancels the operation.
TimerCallback_CancelsOperation(t) ==
  [t EXCEPT !.timer = "fired",
            !.promise = Reject(t.promise, TimeoutMessage(t)),
            !.op = [state |-> "rejected", value |-> "AbortError"]]

\* The timer callback: reject(new Error(message)).
TimerCallback(t) ==
  [t EXCEPT !.timer = "fired",
            !.promise = Reject(t.promise, TimeoutMessage(t))]

\* Mutant: the handler settles the result but leaves the timer armed.
OnFulfilled_NoClear(t, v) == [t EXCEPT !.promise = Resolve(t.promise, v)]

\* The .then handler: clearTimeout(timer); resolve(value).
OnFulfilled(t, v) ==
  LET c == ClearTimer(t) IN [c EXCEPT !.promise = Resolve(c.promise, v)]

\* The .catch handler: clearTimeout(timer); reject(error).
OnRejected(t, e) ==
  LET c == ClearTimer(t) IN [c EXCEPT !.promise = Reject(c.promise, e)]

\* The reaction to the operation's settlement.
Reaction(t) ==
  CASE t.op.state = "fulfilled" -> OnFulfilled(t, t.op.value)
    [] t.op.state = "rejected" -> OnRejected(t, t.op.value)
    [] OTHER -> t

\* The call: the executor arms the timer and attaches the handlers.  The
\* reaction to an operation that has settled already is a microtask, which
\* runs before any timer callback.
CallTimeout(t) ==
  Reaction([t EXCEPT !.pc = "called", !.timer = "armed"])

\* The operation settles as p; once the handlers are attached their
\* reaction runs before any timer callback.
OpSettles(t, p) ==
  LET n == [t EXCEPT !.op = p, !.events = Append(t.events, "op")]
  IN IF t.pc = "called" THEN Reaction(n) ELSE n

\* The armed timer fires.
TimerFires(t) ==
  TimerCallback([t EXCEPT !.events = Append(t.events, "timer")])

TimeoutCall ==
  /\ tm.pc = "init"
  /\ tm' = CallTimeout(tm)
  /\ UNCHANGED notTm

OpFulfil ==
  /\ tm.op.state = "pending"
  /\ \E v \in Values : tm' = OpSettles(tm, [state |-> "fulfilled", value |-> v])
  /\ UNCHANGED notTm

OpReject ==
  /\ tm.op.state = "pending"
  /\ \E e \in Errors : tm' = OpSettles(tm, [state |-> "rejected", value |-> e])
  /\ UNCHANGED notTm

TimerFire ==
  /\ tm.timer = "armed"
  /\ tm' = TimerFires(tm)
  /\ UNCHANGED notTm

\* ------------------------------------------------------------------- batch
SizeError == "size must be greater than 0"

BatchItems == {"a", "b"}

ItemLists == UNION {[1..n -> BatchItems] : n \in 0..MaxItems}

Sizes == -1..MaxSize

Min(a, b) == IF a <= b THEN a ELSE b

\* Mutant: the end index is taken as inclusive.
Slice_Inclusive(items, begin, end) ==
  SubSeq(items, Min(begin, Len(items)) + 1, Min(end + 1, Len(items)))

\* items.slice(begin, end) for 0 <= begin <= end: the elements at the JS
\* indices begin .. end-1, both clamped to the length.
Slice(items, begin, end) ==
  SubSeq(items, Min(begin, Len(items)) + 1, Min(end, Len(items)))

\* for (let i = 0; i < items.length; i += size) result.push(items.slice(i, i + size))
RECURSIVE BatchLoop(_, _, _, _)
BatchLoop(items, size, i, result) ==
  IF i < Len(items)
  THEN BatchLoop(items, size, i + size, Append(result, Slice(items, i, i + size)))
  ELSE result

\* Mutant: a non-positive size yields no chunks instead of an error.
Batch_EmptyForBadSize(items, size) ==
  IF size <= 0
  THEN [threw |-> FALSE, error |-> None, chunks |-> <<>>]
  ELSE [threw |-> FALSE, error |-> None, chunks |-> BatchLoop(items, size, 0, <<>>)]

\* batch(items, size): what it throws, or the chunks it returns.
Batch(items, size) ==
  IF size <= 0
  THEN [threw |-> TRUE, error |-> SizeError, chunks |-> <<>>]
  ELSE [threw |-> FALSE, error |-> None, chunks |-> BatchLoop(items, size, 0, <<>>)]

\* The state of one batch(items, size) call: its arguments and, once
\* "done", its outcome.
BatchInit(items, size) ==
  [ pc |-> "init", items |-> items, size |-> size,
    out |-> [threw |-> FALSE, error |-> None, chunks |-> <<>>] ]

BatchIdle == BatchInit(<<>>, 1)

BatchCall ==
  /\ bt.pc = "init"
  /\ bt' = [bt EXCEPT !.pc = "done", !.out = Batch(bt.items, bt.size)]
  /\ UNCHANGED notBt

\* ------------------------------------------------------- getJSON, postJSON
\* An optional value (an option that may be left out, a header that may be
\* missing): <<>> when absent, <<v>> when present.
Absent == <<>>
Some(v) == <<v>>

Url == "https://example.com/api"

\* options.timeoutMs: left out, 0, and positive values.
TimeoutOptions == {Absent, Some(0), Some(10), Some(250)}

\* `timeoutMs ? ... : ...`: undefined and 0 are falsy.
Truthy(opt) == opt # Absent /\ opt[1] # 0

\* options.headers, a HeadersInit: left out, a plain object (a list of
\* key/value properties), or a Headers instance (which keeps its entries
\* internally, under lower-case names, and has no own enumerable property).
HeaderInits ==
  { [form |-> "undefined", entries |-> <<>>],
    [form |-> "record", entries |-> << <<"X-Test", "1">> >>],
    [form |-> "record", entries |-> << <<"Content-Type", "application/vnd.custom+json">> >>],
    [form |-> "record", entries |-> << <<"content-type", "text/plain">> >>],
    [form |-> "Headers", entries |-> << <<"content-type", "text/plain">> >>] }

\* The other fetch options a caller may pass: method and body.
OtherOptions ==
  { [method |-> Absent, body |-> Absent],
    [method |-> Some("PUT"), body |-> Some("raw")] }

\* The body argument of postJSON, and JSON.stringify of it.
BodyArgs == {"Object{a: 1}", "null"}

JSONStringify(v) ==
  CASE v = "Object{a: 1}" -> "{\"a\":1}"
    [] v = "null" -> "null"

\* response.json(): the parsed body, or a SyntaxError.
ResponseBodies == {"{\"ok\":true}", "<html>"}

JSONParse(text) ==
  IF text = "{\"ok\":true}"
  THEN [state |-> "fulfilled", value |-> "Object{ok: true}"]
  ELSE [state |-> "rejected", value |-> "SyntaxError: Unexpected token"]

\* What fetch may fulfil with: a status, the content-type header (possibly
\* missing) and a body.
Statuses == {200, 299, 300, 404}

ContentTypes ==
  { Absent, Some("application/json"), Some("application/json; charset=utf-8"),
    Some("text/html"), Some("Application/JSON") }

Responses == [status : Statuses, contentType : ContentTypes, body : ResponseBodies]

\* response.ok: the status is in the range 200-299.
ResponseOk(R) == 200 <= R.status /\ R.status <= 299

\* str.includes(sub)
Includes(str, sub) ==
  \E i \in 1..(Len(str) - Len(sub) + 1) : SubSeq(str, i, i + Len(sub) - 1) = sub

\* response.headers.get("content-type") || ""
ContentTypeOf(R) ==
  IF R.contentType = Absent THEN "" ELSE R.contentType[1]

StatusErrorMessage(url, status) ==
  "Request to " \o url \o " failed with status " \o ToString(status)

ContentTypeErrorMessage(url, contentType) ==
  "Expected JSON response from " \o url \o " but got content-type: " \o contentType

RequestTimeoutMessage(url, timeoutMs) ==
  "Request to " \o url \o " timed out after " \o ToString(timeoutMs) \o "ms"

\* obj[key] = value on a list of properties: an existing key (compared
\* exactly) keeps its place and takes the value, a new key is added last.
SetProperty(obj, key, value) ==
  IF \E k \in 1..Len(obj) : obj[k][1] = key
  THEN [k \in 1..Len(obj) |-> IF obj[k][1] = key THEN <<key, value>> ELSE obj[k]]
  ELSE Append(obj, <<key, value>>)

\* { ...obj, ...props }
RECURSIVE SpreadInto(_, _)
SpreadInto(obj, props) ==
  IF props = <<>> THEN obj
  ELSE SpreadInto(SetProperty(obj, Head(props)[1], Head(props)[2]), Tail(props))

\* The own enumerable properties of `headers || {}`, which the spread copies.
OwnProperties(h) == IF h.form = "record" THEN h.entries ELSE <<>>

\* { "Content-Type": "application/json", ...(headers || {}) }
MergedHeaders(h) ==
  [form |-> "record",
   entries |-> SpreadInto(<< <<"Content-Type", "application/json">> >>, OwnProperties(h))]

\* Header names are case-insensitive: the lower-case form of the names used.
LowerName(name) ==
  CASE name = "Content-Type" -> "content-type"
    [] name = "X-Test" -> "x-test"
    [] OTHER -> name

\* The values fetch sends under header `name` (lower case) for the headers
\* h of its init: every entry of h whose name matches, in order (fetch
\* appends each property of a plain object to the request's header list).
SentHeaderValues(h, name) ==
  LET hit == {k \in 1..Len(h.entries) : LowerName(h.entries[k][1]) = name}
      RECURSIVE Pick(_)
      Pick(k) == IF k > Len(h.entries) THEN <<>>
                 ELSE IF k \in hit THEN <<h.entries[k][2]>> \o Pick(k + 1)
                 ELSE Pick(k + 1)
  IN Pick(1)

\* The state of one getJSON or postJSON call:
\*   api       which of the two is called
\*   options   the options argument; bodyArg the body argument of postJSON
\*   abortable whether AbortController exists in the environment
\*   aborted   whether controller.abort() has been called
\*   passed    timeoutMs as getJSON received it
\*   pc        "init", "awaitResponse" (suspended in the await), "readBody"
\*             (returned response.json(), not yet settled), "done"
\*   requests  the calls of fetch made: url and init
\*   fetch     the promise fetch returned
\*   t         the timeout call wrapping it, when timeoutMs is truthy
\*   response  the response the await produced
\*   promise   the promise returned to the caller
FetchInit(api, options, bodyArg, abortable) ==
  [ api       |-> api,
    url       |-> Url,
    options   |-> options,
    bodyArg   |-> bodyArg,
    abortable |-> abortable,
    aborted   |-> FALSE,
    passed    |-> Absent,
    pc        |-> "init",
    requests  |-> <<>>,
    fetch     |-> PendingPromise,
    t         |-> TimeoutIdle,
    response  |-> Absent,
    promise   |-> PendingPromise ]

FetchIdle ==
  FetchInit("getJSON",
            [timeoutMs |-> Absent,
             headers |-> [form |-> "undefined", entries |-> <<>>],
             method |-> Absent, body |-> Absent],
            "null", TRUE)

\* Mutant: the status is not looked at.
ResponseChecks_NoStatusCheck(g, R) ==
  IF ~Includes(ContentTypeOf(R), "application/json")
  THEN [g EXCEPT !.pc = "done", !.response = Some(R),
                 !.promise = Reject(g.promise,
                                    ContentTypeErrorMessage(g.url, ContentTypeOf(R)))]
  ELSE [g EXCEPT !.pc = "readBody", !.response = Some(R)]

\* The statements after the await, for the response R.
ResponseChecks(g, R) ==
  IF ~ResponseOk(R)
  THEN [g EXCEPT !.pc = "done", !.response = Some(R),
                 !.promise = Reject(g.promise, StatusErrorMessage(g.url, R.status))]
  ELSE IF ~Includes(ContentTypeOf(R), "application/json")
  THEN [g EXCEPT !.pc = "done", !.response = Some(R),
                 !.promise = Reject(g.promise,
                                    ContentTypeErrorMessage(g.url, ContentTypeOf(R)))]
  ELSE [g EXCEPT !.pc = "readBody", !.response = Some(R)]

\* The promise the call awaits: the timeout's, or fetch's own.
Awaited(g) == IF g.t.pc = "called" THEN g.t.promise ELSE g.fetch

\* The continuation of the await once the awaited promise has settled.
ResumeGetJSON(g) ==
  LET a == Awaited(g)
  IN IF g.pc # "awaitResponse" \/ a.state = "pending" THEN g
     ELSE IF a.state = "rejected"
     THEN [g EXCEPT !.pc = "done", !.promise = Reject(g.promise, a.value)]
     ELSE ResponseChecks(g, a.value)

\* getJSON(url, options) up to its await: the controller's signal is put
\* into the fetch options, fetch is called, and the timeout is set up when
\* timeoutMs is truthy.
GetJSON(g, options) ==
  LET fetchOptions ==
        [ method  |-> options.method,
          headers |-> options.headers,
          body    |-> options.body,
          signal  |-> IF g.abortable THEN Some("controller.signal") ELSE Absent ]
      n == [g EXCEPT !.pc = "awaitResponse",
                     !.passed = options.timeoutMs,
                     !.requests = Append(g.requests, [url |-> g.url, init |-> fetchOptions])]
  IN IF Truthy(options.timeoutMs)
     THEN [n EXCEPT !.t = CallTimeout(
                            TimeoutInit(options.timeoutMs[1],
                                        RequestTimeoutMessage(g.url, options.timeoutMs[1])))]
     ELSE n

\* Mutant: postJSON leaves timeoutMs out of what it passes on.
PostJSONOptions_NoTimeout(g) ==
  [ timeoutMs |-> Absent,
    headers   |-> MergedHeaders(g.options.headers),
    method    |-> Some("POST"),
    body      |-> Some(JSONStringify(g.bodyArg)) ]

\* The options postJSON passes to getJSON.
PostJSONOptions(g) ==
  [ timeoutMs |-> g.options.timeoutMs,
    headers   |-> MergedHeaders(g.options.headers),
    method    |-> Some("POST"),
    body      |-> Some(JSONStringify(g.bodyArg)) ]

\* The call itself.
CallFetchHelper(g) ==
  IF g.api = "postJSON" THEN GetJSON(g, PostJSONOptions(g)) ELSE GetJSON(g, g.options)

\* fetch's promise settles as p.
FetchSettles(g, p) ==
  ResumeGetJSON([g EXCEPT !.fetch = p,
                          !.t = IF g.t.pc = "called" THEN OpSettles(g.t, p) ELSE g.t])

\* The timer of the timeout fires.
RequestTimerFires(g) == ResumeGetJSON([g EXCEPT !.t = TimerFires(g.t)])

\* The promise of response.json(), which the call returned, settles.
BodySettles(g) ==
  LET parsed == JSONParse(g.response[1].body)
  IN [g EXCEPT !.pc = "done",
               !.promise = IF parsed.state = "fulfilled"
                           THEN Resolve(g.promise, parsed.value)
                           ELSE Reject(g.promise, parsed.value)]

FetchHelperCall ==
  /\ gj.pc = "init"
  /\ gj' = CallFetchHelper(gj)
  /\ UNCHANGED notGj

FetchFulfil ==
  /\ gj.pc # "init" /\ gj.fetch.state = "pending"
  /\ \E R \in Responses : gj' = FetchSettles(gj, [state |-> "fulfilled", value |-> R])
  /\ UNCHANGED notGj

FetchReject ==
  /\ gj.pc # "init" /\ gj.fetch.state = "pending"
  /\ gj' = FetchSettles(gj, [state |-> "rejected", value |-> "TypeError: fetch failed"])
  /\ UNCHANGED notGj

RequestTimerFire ==
  /\ gj.t.timer = "armed"
  /\ gj' = RequestTimerFires(gj)
  /\ UNCHANGED notGj

BodyRead ==
  /\ gj.pc = "readBody"
  /\ gj' = BodySettles(gj)
  /\ UNCHANGED notGj

\* ---------------------------------------------------------------- tryCatch
\* What the wrapped function does when invoked:
\*   "return" : returns the plain value val,
\*   "resolve": returns a promise that later fulfils with val,
\*   "throw"  : throws val,
\*   "reject" : returns a promise that later rejects with val.
\* The values include null and undefined, and so do the failures.
TryCatchFns ==
  [kind : {"return", "resolve"}, val : Values \cup {"null", "undefined"}]
    \cup [kind : {"throw", "reject"}, val : Errors \cup {"null"}]

\* The state of one tryCatch(fn) call:
\*   pc      "init" before the call, "awaiting" suspended in `await fn()`,
\*           "done" returned
\*   calls   how many times fn has been invoked
\*   promise the promise returned to the caller; fulfilled, it holds the
\*           tuple [data, error] as <<data, error>>
TryCatchInit(fn) ==
  [ pc      |-> "init",
    fn      |-> fn,
    calls   |-> 0,
    promise |-> PendingPromise ]

\* return [data, null]
ReturnData(s, data) ==
  [s EXCEPT !.pc = "done", !.promise = Resolve(s.promise, <<data, "null">>)]

\* Mutant: the catch block lets the error escape.
CatchError_Rethrows(s, error) ==
  [s EXCEPT !.pc = "done", !.promise = Reject(s.promise, error)]

\* catch (error) { return [null, error] }
CatchError(s, error) ==
  [s EXCEPT !.pc = "done", !.promise = Resolve(s.promise, <<"null", error>>)]

\* The synchronous part of the call: fn is invoked inside the try block.  A
\* throw of fn is caught at once; anything it returns, promise or not, is
\* awaited, which suspends the call.
CallTryCatch(s) ==
  LET n == [s EXCEPT !.calls = s.calls + 1]
  IN IF s.fn.kind = "throw"
     THEN CatchError(n, s.fn.val)
     ELSE [n EXCEPT !.pc = "awaiting"]

TryCatchCall(c) ==
  /\ tc[c].pc = "init"
  /\ tc' = [tc EXCEPT ![c] = CallTryCatch(tc[c])]
  /\ UNCHANGED notTc

\* The await continues with the returned value or the fulfilment value.
AwaitFulfil(c) ==
  /\ tc[c].pc = "awaiting"
  /\ tc[c].fn.kind \in {"return", "resolve"}
  /\ tc' = [tc EXCEPT ![c] = ReturnData(tc[c], tc[c].fn.val)]
  /\ UNCHANGED notTc

\* The await throws the rejection reason of fn's promise.
AwaitReject(c) ==
  /\ tc[c].pc = "awaiting"
  /\ tc[c].fn.kind = "reject"
  /\ tc' = [tc EXCEPT ![c] = CatchError(tc[c], tc[c].fn.val)]
  /\ UNCHANGED notTc

\* ---------------------------------------------------------- specifications
Runs == DOMAIN par

ParallelNext ==
  \E r \in Runs :
    \/ ParallelCall(r)
    \/ \E i \in DOMAIN par[r].task : TaskFulfil(r, i)
    \/ \E i \in DOMAIN par[r].task : TaskReject(r, i)

\* One parallel run over every task list and every limit.
InitParallel ==
  /\ \E tasks \in TaskLists, limit \in Limits :
       par = [r \in {1} |-> ParallelInit(tasks, limit)]
  /\ rt = RetryIdle
  /\ sq = SequenceIdle /\ tm = TimeoutIdle /\ bt = BatchIdle /\ gj = FetchIdle
  /\ tc = <<>>

SpecParallel == InitParallel /\ [][ParallelNext]_vars

RetryNext == RetryCall \/ FnFulfil \/ FnReject \/ SleepElapsed

\* One retry call over every attempt budget and delay; no parallel run.
InitRetry ==
  /\ \E attempts \in Attempts, delayMs \in Delays : rt = RetryInit(attempts, delayMs)
  /\ par = <<>>
  /\ sq = SequenceIdle /\ tm = TimeoutIdle /\ bt = BatchIdle /\ gj = FetchIdle
  /\ tc = <<>>

SpecRetry == InitRetry /\ [][RetryNext]_vars

SequenceNext == SequenceCall \/ SeqTaskFulfil \/ SeqTaskReject

\* One sequence call over every task list.
InitSequence ==
  /\ \E tasks \in TaskLists : sq = SequenceInit(tasks)
  /\ par = <<>> /\ rt = RetryIdle
  /\ tm = TimeoutIdle /\ bt = BatchIdle /\ gj = FetchIdle
  /\ tc = <<>>

SpecSequence == InitSequence /\ [][SequenceNext]_vars

TimeoutNext == TimeoutCall \/ OpFulfil \/ OpReject \/ TimerFire

\* One timeout call over every duration and message; the operation may
\* settle before or after the call.
InitTimeout ==
  /\ \E ms \in TimeoutDurations, message \in TimeoutMessages :
       tm = TimeoutInit(ms, message)
  /\ par = <<>> /\ rt = RetryIdle /\ sq = SequenceIdle
  /\ bt = BatchIdle /\ gj = FetchIdle
  /\ tc = <<>>

SpecTimeout == InitTimeout /\ [][TimeoutNext]_vars

BatchNext == BatchCall

\* One batch call over every item list and every size.
InitBatch ==
  /\ \E items \in ItemLists, size \in Sizes : bt = BatchInit(items, size)
  /\ par = <<>> /\ rt = RetryIdle /\ sq = SequenceIdle
  /\ tm = TimeoutIdle /\ gj = FetchIdle
  /\ tc = <<>>

SpecBatch == InitBatch /\ [][BatchNext]_vars

FetchNext ==
  FetchHelperCall \/ FetchFulfil \/ FetchReject \/ RequestTimerFire \/ BodyRead

\* One getJSON or postJSON call over every combination of options.
InitFetch ==
  /\ \E api \in {"getJSON", "postJSON"}, timeoutMs \in TimeoutOptions,
        headers \in HeaderInits, other \in OtherOptions,
        bodyArg \in BodyArgs, abortable \in BOOLEAN :
       gj = FetchInit(api,
                      [timeoutMs |-> timeoutMs, headers |-> headers,
                       method |-> other.method, body |-> other.body],
                      bodyArg, abortable)
  /\ par = <<>> /\ rt = RetryIdle /\ sq = SequenceIdle
  /\ tm = TimeoutIdle /\ bt = BatchIdle
  /\ tc = <<>>

SpecFetch == InitFetch /\ [][FetchNext]_vars

TryCatchNext ==
  \E c \in DOMAIN tc : TryCatchCall(c) \/ AwaitFulfil(c) \/ AwaitReject(c)

\* Two tryCatch calls, over every pair of wrapped functions.
InitTryCatch ==
  /\ \E f \in [{1, 2} -> TryCatchFns] : tc = [c \in {1, 2} |-> TryCatchInit(f[c])]
  /\ par = <<>> /\ rt = RetryIdle /\ sq = SequenceIdle
  /\ tm = TimeoutIdle /\ bt = BatchIdle /\ gj = FetchIdle

SpecTryCatch == InitTryCatch /\ [][TryCatchNext]_vars

\* The helpers that run caller-supplied tasks, with the scheduling the
\* JavaScript runtime and the tasks' owners provide: the promise of every
\* task that has been started settles, and an armed sleep timer fires.
TaskSettles(r, i) ==
  /\ r \in Runs
  /\ i \in DOMAIN par[r].task
  /\ (TaskFulfil(r, i) \/ TaskReject(r, i))

LiveNext == ParallelNext \/ SequenceNext \/ RetryNext

\* A sequence call and a retry call that have returned already.
SequenceOver == SeqLoop(SequenceIdle)
RetryOver == CallRetry(RetryInit(0, 0))

\* One call of one of the three helpers; the other two have no call in
\* progress.
InitLive ==
  /\ \/ /\ \E tasks \in TaskLists, limit \in Limits :
             par = [r \in {1} |-> ParallelInit(tasks, limit)]
        /\ sq = SequenceOver /\ rt = RetryOver
     \/ /\ \E tasks \in TaskLists : sq = SequenceInit(tasks)
        /\ par = <<>> /\ rt = RetryOver
     \/ /\ \E attempts \in Attempts, delayMs \in Delays :
             rt = RetryInit(attempts, delayMs)
        /\ par = <<>> /\ sq = SequenceOver
  /\ tm = TimeoutIdle /\ bt = BatchIdle /\ gj = FetchIdle /\ tc = <<>>

Fairness ==
  /\ \A r \in {1}, i \in 1..MaxTasks : WF_vars(TaskSettles(r, i))
  /\ WF_vars(SeqTaskFulfil \/ SeqTaskReject)
  /\ WF_vars(FnFulfil \/ FnReject)
  /\ WF_vars(SleepElapsed)

SpecLive == InitLive /\ [][LiveNext]_vars /\ Fairness

EquivNext == ParallelNext \/ SequenceNext

\* parallel(tasks, 1) and sequence(tasks) over the same task list, each
\* with its own invocations of the tasks, which behave alike.
InitEquiv ==
  /\ \E tasks \in TaskLists :
       /\ par = [r \in {1} |-> ParallelInit(tasks, 1)]
       /\ sq = SequenceInit(tasks)
  /\ rt = RetryIdle /\ tm = TimeoutIdle /\ bt = BatchIdle /\ gj = FetchIdle
  /\ tc = <<>>

SpecEquiv == InitEquiv /\ [][EquivNext]_vars

\* The tasks of run r in a pair of runs: each produces a value or a failure
\* that names its run.
PairTaskKinds(r) ==
  { [kind |-> "resolve", val |-> IF r = 1 THEN "v1" ELSE "v2"],
    [kind |-> "reject", val |-> IF r = 1 THEN "e1" ELSE "e2"],
    [kind |-> "throw", val |-> IF r = 1 THEN "e1" ELSE "e2"] }

PairTaskLists(r) == UNION {[1..n -> PairTaskKinds(r)] : n \in 0..MaxPairTasks}

\* Two parallel runs in progress at the same time, each over its own task
\* list and with its own limit >= 1.
InitTwoRuns ==
  /\ \E t1 \in PairTaskLists(1), t2 \in PairTaskLists(2),
        l1 \in Limits, l2 \in Limits :
       /\ l1 >= 1 /\ l2 >= 1
       /\ par = [r \in {1, 2} |-> ParallelInit(IF r = 1 THEN t1 ELSE t2,
                                               IF r = 1 THEN l1 ELSE l2)]
  /\ rt = RetryIdle
  /\ sq = SequenceIdle /\ tm = TimeoutIdle /\ bt = BatchIdle /\ gj = FetchIdle
  /\ tc = <<>>

SpecTwoRuns == InitTwoRuns /\ [][ParallelNext]_vars

\* ------------------------------------------------------------------ claims
\* The runs whose synchronous part has been executed.
Called == {r \in Runs : par[r].pc = "called"}

AllSucceed(s) == \A i \in DOMAIN s.tasks : s.tasks[i].kind = "resolve"

AllFulfilled(s) == \A i \in DOMAIN s.task : s.task[i] = "fulfilled"

\* The values of the tasks, in input order.
TaskValues(s) == [i \in DOMAIN s.tasks |-> s.tasks[i].val]

\* The tasks that have failed: rejected promise or synchronous throw.
Failed(s) == {i \in DOMAIN s.task : s.task[i] \in {"rejected", "thrown"}}

\* C1: when every task succeeds and limit >= 1 (Infinity included), the run
\* never rejects, is fulfilled exactly when every task has fulfilled, and the
\* sequence it delivers has the length of the task list with the i-th task's
\* value at position i, whatever the order of completions; while it is
\* pending some task is in flight, so that state is always reached.
C1_ResultsInInputOrder ==
  \A r \in Called :
    LET s == par[r] IN
    (AllSucceed(s) /\ s.limit >= 1) =>
      /\ s.promise.state # "rejected"
      /\ (s.promise.state = "fulfilled") <=> AllFulfilled(s)
      /\ s.promise.state = "fulfilled" =>
           /\ s.promise.value = ResultsRef
           /\ Len(Delivered(s)) = Len(s.tasks)
           /\ Delivered(s) = TaskValues(s)
      /\ s.promise.state = "pending" => InFlight(s) # {}

\* A fulfilled run of three succeeding tasks with differing values that
\* completed in the reverse of their input order.
C1_Witness ==
  \E r \in Called :
    LET s == par[r] IN
    /\ AllSucceed(s) /\ s.limit = Infinity
    /\ s.promise.state = "fulfilled"
    /\ Len(s.tasks) = 3
    /\ s.settled = <<3, 2, 1>>
    /\ s.tasks[1].val # s.tasks[3].val

\* C2: in every state of a run with limit >= 1 the tasks started and not yet
\* settled number at most limit.
C2_AtMostLimitInFlight ==
  \A r \in Runs :
    par[r].limit >= 1 => Cardinality(InFlight(par[r])) <= par[r].limit

\* A run at its ceiling of 1: one task in flight after an earlier one has
\* settled, with a task still unstarted.
C2_Witness ==
  \E r \in Called :
    LET s == par[r] IN
    /\ s.limit = 1
    /\ Cardinality(InFlight(s)) = s.limit
    /\ s.index < Len(s.tasks)
    /\ s.settled # <<>>

\* The task that fails in the step from s to n, if any (at most one does: a
\* handler settles one promise, and a synchronous throw ends the loop).
NewlyFailed(s, n) == Failed(n) \ Failed(s)

\* C3: fail fast.  In the step in which a task fails while the run is
\* pending, the run rejects with that task's failure even though other
\* tasks are in flight; a settled run never changes again, so later results
\* are not delivered and a later failure does not replace the first; no step
\* cancels an in-flight task: it stays pending until its own promise
\* settles, which remains possible after the rejection.
C3_Step(r) ==
  LET s == par[r]
      n == par'[r]
  IN /\ \A j \in NewlyFailed(s, n) :
          s.promise.state = "pending" =>
            n.promise = [state |-> "rejected", value |-> s.tasks[j].val]
     /\ s.promise.state # "pending" => n.promise = s.promise
     /\ \A k \in InFlight(s) :
          \/ n.task[k] = "pending"
          \/ /\ Len(n.settled) > Len(s.settled)
             /\ n.settled[Len(s.settled) + 1] = k
             /\ n.task[k] = IF s.tasks[k].kind = "resolve" THEN "fulfilled" ELSE "rejected"

\* Every in-flight task can settle, whatever the state of the run.
C3_CanSettle ==
  \A r \in Runs : \A k \in InFlight(par[r]) :
    ENABLED (TaskFulfil(r, k) \/ TaskReject(r, k))

C3_FailFast == [][\A r \in Runs : C3_Step(r)]_vars /\ []C3_CanSettle

\* A rejected run whose first failure was followed by the completion of a
\* task that was in flight at the time, with another still in flight.
C3_Witness ==
  \E r \in Called :
    LET s == par[r] IN
    /\ s.promise.state = "rejected"
    /\ Len(s.settled) >= 2
    /\ s.task[s.settled[1]] = "rejected"
    /\ s.promise.value = s.tasks[s.settled[1]].val
    /\ s.task[s.settled[2]] = "fulfilled"
    /\ s.settled[2] \in {s.started[k] : k \in 1..2}
    /\ s.limit >= 2
    /\ InFlight(s) # {}

\* C4: a run is fulfilled only when every task has been started and has
\* fulfilled, none is in flight and none has failed.
C4_ResolvesOnlyWhenAllDone ==
  \A r \in Runs :
    LET s == par[r] IN
    s.promise.state = "fulfilled" =>
      /\ s.index = Len(s.tasks)
      /\ AllFulfilled(s)
      /\ InFlight(s) = {}
      /\ Failed(s) = {}
      /\ s.active = 0

\* A fulfilled run of several tasks under a limit smaller than their number.
C4_Witness ==
  \E r \in Called :
    LET s == par[r] IN
    /\ s.promise.state = "fulfilled"
    /\ Len(s.tasks) >= 2
    /\ s.limit = 1

\* C5: with limit <= 0 the call rejects with 'limit must be greater than 0'
\* and no task is ever invoked.
C5_NonPositiveLimit ==
  \A r \in Called :
    LET s == par[r] IN
    s.limit <= 0 =>
      /\ s.promise = [state |-> "rejected", value |-> LimitError]
      /\ s.started = <<>>
      /\ \A i \in DOMAIN s.task : s.task[i] = "unstarted"

\* A call with limit 0 over a non-empty task list.
C5_Witness ==
  \E r \in Called :
    /\ par[r].limit = 0
    /\ Len(par[r].tasks) >= 2
    /\ par[r].promise.state = "rejected"

\* C6: with an empty task list and limit >= 1 the run is fulfilled with the
\* empty sequence by the call itself: no state of the run is pending.
C6_EmptyResolvesAtOnce ==
  \A r \in Called :
    LET s == par[r] IN
    (Len(s.tasks) = 0 /\ s.limit >= 1) =>
      /\ s.promise = [state |-> "fulfilled", value |-> ResultsRef]
      /\ Delivered(s) = <<>>

\* The call over the empty list with the default limit has returned.
C6_Witness ==
  \E r \in Called :
    /\ Len(par[r].tasks) = 0
    /\ par[r].limit = Infinity
    /\ par[r].promise.state = "fulfilled"

\* ----------------------------------------------------------- retry claims
IsCall(e) == e.ev = "call"
IsFailure(e) == e.ev = "settle" /\ e.o.kind = "reject"
IsSuccess(e) == e.ev = "settle" /\ e.o.kind = "resolve"
IsSleep(e) == e.ev = "sleep"
IsWake(e) == e.ev = "wake"

\* The positions among the first p of trace tr whose event satisfies P.
Count(tr, p, P(_)) == Cardinality({q \in 1..p : P(tr[q])})

Calls(s) == Count(s.trace, Len(s.trace), IsCall)
Failures(s) == Count(s.trace, Len(s.trace), IsFailure)
Sleeps(s) == Count(s.trace, Len(s.trace), IsSleep)
Succeeded(s) == \E q \in 1..Len(s.trace) : IsSuccess(s.trace[q])

\* The outcome of the latest settled invocation.
LastSettled(s) ==
  LET q == CHOOSE q \in 1..Len(s.trace) :
             /\ s.trace[q].ev = "settle"
             /\ \A q2 \in (q + 1)..Len(s.trace) : s.trace[q2].ev # "settle"
  IN s.trace[q].o

\* C7: with attempts >= 1, as long as fn has failed fewer than attempts
\* times and has not succeeded the call goes on (so a task that fails k
\* times, k + 1 <= attempts, is invoked a (k+1)-th time); once an
\* invocation succeeds after k failures the call is over, fulfilled with
\* that invocation's value, fn has been invoked exactly k + 1 times and the
\* success is the last thing that happened.
C7_SucceedsAfterKFailures ==
  (rt.attempts >= 1 /\ rt.pc # "init") =>
    /\ (~Succeeded(rt) /\ Failures(rt) < rt.attempts) =>
         /\ rt.pc \in {"awaitFn", "sleeping"}
         /\ rt.promise.state = "pending"
         /\ rt.pc = "awaitFn" <=> Calls(rt) = Failures(rt) + 1
    /\ Succeeded(rt) =>
         /\ rt.pc = "done"
         /\ IsSuccess(rt.trace[Len(rt.trace)])
         /\ rt.promise = [state |-> "fulfilled", value |-> LastSettled(rt).val]
         /\ Calls(rt) = Failures(rt) + 1
         /\ Failures(rt) + 1 <= rt.attempts
         /\ ~ENABLED RetryNext

\* A call that succeeded on its third and last allowed attempt.
C7_Witness ==
  /\ rt.attempts = 3
  /\ Succeeded(rt)
  /\ Failures(rt) = 2
  /\ rt.promise.state = "fulfilled"

\* C8 (as claimed): when every one of the A >= 1 attempts has failed the
\* call is over after exactly A invocations and is rejected with the failure
\* of the A-th attempt.
C8_LastFailurePropagated ==
  (rt.attempts >= 1 /\ rt.pc = "done" /\ ~Succeeded(rt)) =>
    /\ Calls(rt) = rt.attempts
    /\ Failures(rt) = rt.attempts
    /\ rt.promise = [state |-> "rejected", value |-> LastSettled(rt).val]

\* C9: with attempts <= 0 the call rejects with 'attempts must be greater
\* than 0' and fn is never invoked (nothing is ever done to the environment).
C9_NonPositiveAttempts ==
  (rt.attempts <= 0 /\ rt.pc # "init") =>
    /\ rt.pc = "done"
    /\ rt.promise = [state |-> "rejected", value |-> AttemptsError]
    /\ rt.trace = <<>>

\* A call with attempts = 0 has returned.
C9_Witness == rt.attempts = 0 /\ rt.pc = "done" /\ rt.promise.state = "rejected"

\* C10: the shape of the trace.  With delayMs > 0 a failure that is not the
\* attempts-th is followed at once by one sleep of delayMs, then its wake,
\* then the next call; a later call is preceded by that wake.  With
\* delayMs <= 0 a non-final failure is followed at once by the next call and
\* no sleep ever happens.  Nothing follows the attempts-th failure or a
\* success.  A sleep is in progress exactly when the call is suspended in
\* it.  An exhausted call has slept attempts - 1 times (0 when delayMs <= 0).
C10_Shape(s) ==
  LET tr == s.trace
      L == Len(tr)
      D == s.delayMs
  IN /\ \A p \in 1..L :
          /\ (IsFailure(tr[p]) /\ Count(tr, p, IsFailure) < s.attempts) =>
               IF D > 0
               THEN /\ p + 1 <= L /\ tr[p + 1] = [ev |-> "sleep", ms |-> D]
                    /\ p + 2 <= L => IsWake(tr[p + 2])
                    /\ p + 3 <= L => IsCall(tr[p + 3])
                    /\ p + 2 <= L => p + 3 <= L
               ELSE p + 1 <= L /\ IsCall(tr[p + 1])
          /\ (IsFailure(tr[p]) /\ Count(tr, p, IsFailure) >= s.attempts) => p = L
          /\ IsSuccess(tr[p]) => p = L
          /\ (IsCall(tr[p]) /\ p > 1) =>
               IF D > 0 THEN IsWake(tr[p - 1]) ELSE IsFailure(tr[p - 1])
          /\ IsSleep(tr[p]) => D > 0 /\ tr[p].ms = D /\ p > 1 /\ IsFailure(tr[p - 1])
          /\ IsWake(tr[p]) => p > 1 /\ IsSleep(tr[p - 1])
          /\ tr[p].ev = "settle" => p > 1 /\ IsCall(tr[p - 1])
     /\ (s.pc = "sleeping") <=> (L > 0 /\ IsSleep(tr[L]))
     /\ (s.pc = "awaitFn") <=> (L > 0 /\ IsCall(tr[L]))
     /\ (s.pc = "done" /\ ~Succeeded(s) /\ s.attempts >= 1) =>
          Sleeps(s) = IF D > 0 THEN s.attempts - 1 ELSE 0

C10_WaitsBetweenAttempts == C10_Shape(rt)

\* An exhausted call of three attempts with a positive delay: two sleeps.
C10_Witness ==
  /\ rt.attempts = 3 /\ rt.delayMs > 0
  /\ rt.pc = "done" /\ ~Succeeded(rt)
  /\ Sleeps(rt) = 2

\* -------------------------------------------------------- sequence claims
\* C11: sequence invokes the tasks in input order, invokes a task only
\* when its predecessor has completed, and so has at most one task in
\* flight in every state; when every task succeeds it never rejects, is
\* fulfilled exactly when all have fulfilled, and delivers their values in
\* input order, as many as there are tasks.
C11_SequenceInOrder ==
  /\ sq.started = [k \in 1..Len(sq.started) |-> k]
  /\ \A k \in 2..Len(sq.started) : sq.task[k - 1] = "fulfilled"
  /\ Cardinality(InFlight(sq)) <= 1
  /\ (AllSucceed(sq) /\ sq.pc # "init") =>
       /\ sq.promise.state # "rejected"
       /\ (sq.promise.state = "fulfilled") <=> AllFulfilled(sq)
       /\ sq.promise.state = "fulfilled" =>
            /\ sq.promise.value = ResultsRef
            /\ Len(SeqDelivered(sq)) = Len(sq.tasks)
            /\ SeqDelivered(sq) = TaskValues(sq)
       /\ sq.promise.state = "pending" => Cardinality(InFlight(sq)) = 1

\* A fulfilled sequence of three succeeding tasks whose values differ.
C11_Witness ==
  /\ Len(sq.tasks) = 3 /\ AllSucceed(sq)
  /\ sq.promise.state = "fulfilled"
  /\ sq.tasks[1].val # sq.tasks[2].val
  /\ sq.started = <<1, 2, 3>>

\* C12: once the task at position j has failed (by rejection or by a
\* synchronous throw) it is the only failed task, the call is over and
\* rejected with exactly that task's failure and not with a result list,
\* the tasks invoked are exactly those up to j, and every later task is
\* unstarted; the call being over, this is so from then on.
C12_SequenceStopsAtFirstFailure ==
  \A j \in Failed(sq) :
    /\ Failed(sq) = {j}
    /\ sq.pc = "done"
    /\ ~ENABLED SequenceNext
    /\ sq.promise = [state |-> "rejected", value |-> sq.tasks[j].val]
    /\ sq.started = [k \in 1..j |-> k]
    /\ \A k \in DOMAIN sq.task :
         /\ k < j => sq.task[k] = "fulfilled"
         /\ k > j => sq.task[k] = "unstarted"

\* t2 of [t1, t2, t3] has rejected: a result was gathered from t1, and t3
\* is unstarted.
C12_Witness ==
  /\ Len(sq.tasks) = 3
  /\ sq.task[2] = "rejected"
  /\ Len(sq.results) = 1
  /\ sq.task[3] = "unstarted"
  /\ sq.promise.state = "rejected"

\* --------------------------------------------------------- timeout claims
\* C13: in every state of a timeout call, if the operation settled before
\* the timer fired (also before the call) the result has the operation's
\* own state and value; if the timer fired first the result is rejected
\* with the supplied message, or with 'Operation timed out after <ms>ms'
\* when none was supplied; while neither has happened the result is pending.
C13_TimeoutOutcome ==
  tm.pc = "called" =>
    /\ (tm.events # <<>> /\ tm.events[1] = "op") => tm.promise = tm.op
    /\ (tm.events # <<>> /\ tm.events[1] = "timer") =>
         /\ tm.promise.state = "rejected"
         /\ tm.message # "undefined" => tm.promise.value = tm.message
         /\ tm.message = "undefined" =>
              tm.promise.value = "Operation timed out after " \o ToString(tm.ms) \o "ms"
    /\ tm.events = <<>> => tm.promise.state = "pending" /\ tm.timer = "armed"

\* The timer of a call with a supplied message fired while the operation
\* was pending.
C13_Witness ==
  /\ tm.pc = "called"
  /\ tm.events = <<"timer">>
  /\ tm.message = "too slow"
  /\ tm.op.state = "pending"
  /\ tm.promise.state = "rejected"

\* C14: the result of timeout never changes once settled; when the
\* operation settles first (the handlers being attached) the timer is
\* cleared, is never enabled again and never fires; when the timer fires
\* first the operation's later settlement leaves the result as it was.
C14_Once == tm.promise.state # "pending" => tm'.promise = tm.promise

C14_TimerDisarmed ==
  (tm.pc = "called" /\ tm.events # <<>> /\ tm.events[1] = "op") =>
    /\ tm.timer = "cleared"
    /\ tm.events = <<"op">>
    /\ ~ENABLED TimerFire

C14_LateOperationIgnored ==
  (tm.events # <<>> /\ tm.events[1] = "timer") =>
    tm.promise = [state |-> "rejected", value |-> TimeoutMessage(tm)]

C14_SettlesAtMostOnce ==
  /\ [][C14_Once]_vars
  /\ [](C14_TimerDisarmed /\ C14_LateOperationIgnored)

\* The operation fulfilled after the timer had fired: the result is still
\* the timeout failure.
C14_Witness ==
  /\ tm.events = <<"timer", "op">>
  /\ tm.op.state = "fulfilled"
  /\ tm.promise.state = "rejected"
  /\ tm.timer = "fired"

\* ----------------------------------------------------------- batch claims
\* The chunks joined in order.
RECURSIVE Concat(_)
Concat(chunks) ==
  IF chunks = <<>> THEN <<>> ELSE Head(chunks) \o Concat(Tail(chunks))

\* ceil(n / d) for n >= 0 and d > 0.
CeilDiv(n, d) == (n + d - 1) \div d

\* C15: for size > 0 batch returns chunks that joined in order give items
\* back; every chunk but the last has exactly size elements and the last
\* has between 1 and size; there are ceil(len(items) / size) chunks, none
\* for the empty list.
C15_BatchPartitions ==
  (bt.pc = "done" /\ bt.size > 0) =>
    LET chunks == bt.out.chunks
        n == Len(chunks)
    IN /\ ~bt.out.threw
       /\ Concat(chunks) = bt.items
       /\ \A k \in 1..(n - 1) : Len(chunks[k]) = bt.size
       /\ n > 0 => Len(chunks[n]) \in 1..bt.size
       /\ n = CeilDiv(Len(bt.items), bt.size)
       /\ bt.items = <<>> => chunks = <<>>

\* Four items in chunks of three: a full chunk and a shorter last one.
C15_Witness ==
  /\ bt.pc = "done" /\ bt.size = 3 /\ Len(bt.items) = 4
  /\ Len(bt.out.chunks) = 2
  /\ bt.items[1] # bt.items[2]

\* C16: for size <= 0 batch throws 'size must be greater than 0' and
\* returns no chunks, whatever the items, the empty list included.
C16_BatchRejectsBadSize ==
  (bt.pc = "done" /\ bt.size <= 0) =>
    /\ bt.out.threw
    /\ bt.out.error = SizeError
    /\ bt.out.chunks = <<>>

\* batch([], 0) has thrown.
C16_Witness ==
  bt.pc = "done" /\ bt.size = 0 /\ bt.items = <<>> /\ bt.out.threw

\* ------------------------------------------------- failure pass-through
\* The failure values fn has produced so far in the retry call.
RetryFailureValues ==
  {rt.trace[q].o.val : q \in {q \in 1..Len(rt.trace) : IsFailure(rt.trace[q])}}

\* A rejected parallel run with a valid limit holds the failure value of one
\* of its failed tasks.
PassThroughParallel ==
  \A r \in Runs :
    (par[r].promise.state = "rejected" /\ par[r].limit >= 1) =>
      \E j \in Failed(par[r]) : par[r].promise.value = par[r].tasks[j].val

\* A rejected sequence holds the failure value of its failed task.
PassThroughSequence ==
  sq.promise.state = "rejected" =>
    \E j \in Failed(sq) : sq.promise.value = sq.tasks[j].val

\* A retry call rejected after its attempts holds a failure value that fn
\* produced.
PassThroughRetry ==
  (rt.promise.state = "rejected" /\ rt.attempts >= 1) =>
    rt.promise.value \in RetryFailureValues

\* A timeout result rejected because the operation failed first holds the
\* operation's failure value.
PassThroughTimeout ==
  (tm.promise.state = "rejected" /\ tm.events # <<>> /\ tm.events[1] = "op") =>
    tm.op.state = "rejected" /\ tm.promise.value = tm.op.value

\* C17 (as claimed): every failure that sequence, parallel, retry or timeout
\* propagates for a caller-supplied task is the failure value the task
\* produced, for every failure value, the nullish ones included.
C17_FailuresVerbatim ==
  /\ PassThroughParallel
  /\ PassThroughSequence
  /\ PassThroughRetry
  /\ PassThroughTimeout

\* ----------------------------------------------- getJSON, postJSON claims
\* The timer of the call's timeout fired before fetch settled.
TimedOutFirst == gj.t.events # <<>> /\ gj.t.events[1] = "timer"

\* C18: the response of fetch reaches the checks unless the timeout fired
\* first; a response whose status is outside 200-299 makes the call fail
\* with 'Request to <url> failed with status <status>'; one inside that
\* range whose content-type does not include application/json (or is
\* missing) makes it fail with 'Expected JSON response from <url> but got
\* content-type: <value>'; the call is fulfilled only for a response in the
\* range whose content-type includes application/json, and then with the
\* parsed body.
C18_GetJSONChecks ==
  /\ (gj.fetch.state = "fulfilled" /\ ~TimedOutFirst) =>
       gj.response = Some(gj.fetch.value)
  /\ gj.response # Absent =>
       LET R == gj.response[1]
           ok == R.status \in 200..299
           ct == IF R.contentType = Absent THEN "" ELSE R.contentType[1]
           json == Includes(ct, "application/json")
       IN /\ ~ok =>
               /\ gj.promise.state = "rejected"
               /\ gj.promise.value =
                    "Request to " \o gj.url \o " failed with status " \o ToString(R.status)
               /\ Includes(gj.promise.value, "failed with status")
          /\ (ok /\ ~json) =>
               /\ gj.promise.state = "rejected"
               /\ gj.promise.value =
                    "Expected JSON response from " \o gj.url
                      \o " but got content-type: " \o ct
               /\ Includes(gj.promise.value, "Expected JSON response")
          /\ (ok /\ json /\ gj.pc = "done" /\ R.body = "{\"ok\":true}") =>
               gj.promise = [state |-> "fulfilled", value |-> "Object{ok: true}"]
  /\ gj.promise.state = "fulfilled" =>
       /\ gj.response # Absent
       /\ gj.response[1].status \in 200..299
       /\ gj.response[1].contentType # Absent
       /\ Includes(gj.response[1].contentType[1], "application/json")
       /\ gj.promise.value = "Object{ok: true}"

\* A getJSON call that got a 299 response whose content-type differs from
\* application/json only in case: the content-type error.
C18_Witness ==
  /\ gj.api = "getJSON"
  /\ gj.response # Absent
  /\ gj.response[1].status = 299
  /\ gj.response[1].contentType = Some("Application/JSON")
  /\ gj.promise.state = "rejected"

\* The Content-Type values the caller's headers carry.
CallerContentType == SentHeaderValues(gj.options.headers, "content-type")

\* C19 (as claimed): a postJSON call makes exactly one request, to the
\* given url, with method POST and the JSON text of the body argument as
\* body, whatever the options' method and body; the Content-Type it sends is
\* application/json, or the caller's value when the caller's headers carry
\* one.
C19_PostJSONRequest ==
  (gj.api = "postJSON" /\ gj.pc # "init") =>
    /\ Len(gj.requests) = 1
    /\ gj.requests[1].url = gj.url
    /\ gj.requests[1].init.method = Some("POST")
    /\ gj.bodyArg = "Object{a: 1}" => gj.requests[1].init.body = Some("{\"a\":1}")
    /\ gj.bodyArg = "null" => gj.requests[1].init.body = Some("null")
    /\ SentHeaderValues(gj.requests[1].init.headers, "content-type") =
         IF CallerContentType = <<>> THEN <<"application/json">> ELSE CallerContentType

\* C20: in a getJSON or postJSON call with a positive timeoutMs, getJSON
\* receives that timeoutMs (postJSON passes it unchanged) and arms a timer
\* of that duration; while fetch is pending and the timer has not fired the
\* timer can fire; once it has fired before fetch settled the call is
\* rejected with 'Request to <url> timed out after <timeoutMs>ms', whatever
\* fetch does later.
C20_RequestTimesOut ==
  (gj.pc # "init" /\ gj.options.timeoutMs # Absent /\ gj.options.timeoutMs[1] > 0) =>
    LET ms == gj.options.timeoutMs[1] IN
    /\ gj.passed = Some(ms)
    /\ gj.t.pc = "called" /\ gj.t.ms = ms
    /\ (gj.fetch.state = "pending" /\ gj.t.events = <<>>) =>
         /\ gj.promise.state = "pending"
         /\ ENABLED RequestTimerFire
    /\ TimedOutFirst =>
         /\ gj.promise.state = "rejected"
         /\ gj.promise.value =
              "Request to " \o gj.url \o " timed out after " \o ToString(ms) \o "ms"
         /\ Includes(gj.promise.value, "timed out")

\* A postJSON call with timeoutMs 10 timed out, and fetch fulfilled later.
C20_Witness ==
  /\ gj.api = "postJSON"
  /\ gj.options.timeoutMs = Some(10)
  /\ gj.t.events = <<"timer", "op">>
  /\ gj.fetch.state = "fulfilled"
  /\ gj.promise.state = "rejected"

\* --------------------------------------------------------- tryCatch claims
\* C21: tryCatch never fails.  Its promise is never rejected; it invokes fn
\* exactly once; it is fulfilled with [value, null] when fn returns value or
\* a promise fulfilled with value, and with [null, error] when fn throws
\* error or returns a promise rejected with error; until then the call is
\* waiting for fn's promise.
C21_TryCatchPair ==
  \A c \in DOMAIN tc :
    LET s == tc[c] IN
    s.pc # "init" =>
      /\ s.calls = 1
      /\ s.promise.state # "rejected"
      /\ s.promise.state = "pending" <=> s.pc = "awaiting"
      /\ s.promise.state = "fulfilled" =>
           s.promise.value =
             IF s.fn.kind \in {"return", "resolve"}
             THEN <<s.fn.val, "null">> ELSE <<"null", s.fn.val>>

\* Both calls have returned: one whose function's promise rejected with an
\* error, one whose function returned a plain value.
C21_Witness ==
  /\ DOMAIN tc = {1, 2}
  /\ tc[1].fn = [kind |-> "reject", val |-> "e1"]
  /\ tc[1].promise = [state |-> "fulfilled", value |-> <<"null", "e1">>]
  /\ tc[2].fn = [kind |-> "return", val |-> "v1"]
  /\ tc[2].promise = [state |-> "fulfilled", value |-> <<"v1", "null">>]

\* ------------------------------------------------- parallel claims, second part
\* C22: in every state of a run the tasks started so far are the tasks 1..k
\* for some k, started in that order, each once: the next task started is
\* the lowest-index task not yet started, whatever the order of completions.
C22_StartedInIndexOrder ==
  \A r \in Runs :
    LET s == par[r] IN
    /\ s.started = [k \in 1..Len(s.started) |-> k]
    /\ Len(s.started) = s.index
    /\ \A i \in DOMAIN s.task : s.task[i] # "unstarted" <=> i <= Len(s.started)

\* Three tasks under limit 2: the second completed first, and the slot it
\* freed went to the third.
C22_Witness ==
  \E r \in Called :
    LET s == par[r] IN
    /\ s.limit = 2
    /\ Len(s.tasks) = 3
    /\ s.settled = <<2>>
    /\ s.started = <<1, 2, 3>>
    /\ s.task[1] = "pending"

\* The tasks that have completed successfully.
Completed(s) == {i \in DOMAIN s.task : s.task[i] = "fulfilled"}

\* C23: in every state of a called run with limit >= 1 in which no task has
\* failed, the tasks in flight number min(limit, N - completed): min(limit, N)
\* right after the call, and again the minimum after each completion has
\* been handled, so no slot is idle while a task is unstarted.
C23_SlotsKeptFull ==
  \A r \in Called :
    LET s == par[r] IN
    (s.limit >= 1 /\ Failed(s) = {}) =>
      /\ Cardinality(InFlight(s)) =
           Min(s.limit, Len(s.tasks) - Cardinality(Completed(s)))
      /\ (InFlight(s) = {} \/ Cardinality(InFlight(s)) < s.limit) =>
           \A i \in DOMAIN s.task : s.task[i] # "unstarted"

\* Three tasks under limit 2 after two completions: the last task holds one
\* slot and the other is free because nothing is left to start.
C23_Witness ==
  \E r \in Called :
    LET s == par[r] IN
    /\ s.limit = 2
    /\ Len(s.tasks) = 3
    /\ Failed(s) = {}
    /\ Cardinality(Completed(s)) = 2
    /\ InFlight(s) = {3}

\* C24: once a task has failed and the run has rejected, no step starts a
\* task: the tasks unstarted at that moment stay unstarted.
C24_NoStartAfterFailure ==
  [][\A r \in Runs :
       (Failed(par[r]) # {} /\ par[r].promise.state = "rejected") =>
         /\ par'[r].started = par[r].started
         /\ \A i \in DOMAIN par[r].task :
              par[r].task[i] = "unstarted" => par'[r].task[i] = "unstarted"]_vars

\* C25, in every state of a run whose limit passed the check: the counter
\* equals the number of tasks started and not completed successfully, so a
\* failed task keeps its slot; it lies in 0..limit; once a task has failed
\* it is at least 1 and the run is not fulfilled; the run is rejected
\* exactly when some task has failed.
C25_Counter ==
  \A r \in Runs :
    LET s == par[r] IN
    s.limit >= 1 =>
      /\ s.active = Len(s.started) - Cardinality(Completed(s))
      /\ s.active = Cardinality(InFlight(s)) + Cardinality(Failed(s))
      /\ 0 <= s.active /\ s.active <= s.limit
      /\ Failed(s) # {} => (s.active >= 1 /\ s.promise.state # "fulfilled")
      /\ s.promise.state = "rejected" <=> Failed(s) # {}

\* C25, in every step: a task that has failed stays failed, and a settled
\* run keeps its outcome, so the run settles once.
C25_Step ==
  \A r \in Runs :
    /\ Failed(par[r]) \subseteq Failed(par'[r])
    /\ par[r].promise.state # "pending" => par'[r].promise = par[r].promise

C25_CounterNeverReleased == []C25_Counter /\ [][C25_Step]_vars

\* A run under limit 2 in which the first task failed and both others then
\* completed: nothing is in flight, the counter is 1 and the run is rejected.
C25_Witness ==
  \E r \in Called :
    LET s == par[r] IN
    /\ s.limit = 2
    /\ Failed(s) = {1}
    /\ Completed(s) = {2, 3}
    /\ s.settled[1] = 1
    /\ s.active = 1
    /\ s.promise.state = "rejected"

\* -------------------------------------------------------------- termination
\* C26: when every started task eventually settles, a parallel run with
\* limit >= 1, a sequence run and a retry run with attempts >= 1 each
\* eventually settle once called.
C26_EventuallySettles ==
  /\ \A r \in {1} :
       (r \in Called /\ par[r].limit >= 1)
         ~> (r \in Runs /\ par[r].promise.state # "pending")
  /\ (sq.pc # "init") ~> (sq.promise.state # "pending")
  /\ (rt.pc # "init" /\ rt.attempts >= 1) ~> (rt.promise.state # "pending")

\* A parallel run over three tasks under limit 1 that has resolved after
\* every task took its turn.
C26_Witness ==
  \E r \in Called :
    LET s == par[r] IN
    /\ s.limit = 1
    /\ Len(s.tasks) = 3
    /\ s.settled = <<1, 2, 3>>
    /\ s.promise.state = "fulfilled"

\* -------------------------------------------------------------- equivalence
IsPrefix(a, b) == Len(a) <= Len(b) /\ a = SubSeq(b, 1, Len(a))

\* What a call shows of itself: the tasks it invoked, in order, and the
\* order in which their promises settled.
Observed(s) == [started |-> s.started, settled |-> s.settled]

\* At most one task in flight, and after a failure the failed task is the
\* last one started.
OneAtATime(s) ==
  /\ Cardinality(InFlight(s)) <= 1
  /\ Failed(s) # {} =>
       /\ InFlight(s) = {}
       /\ Failed(s) = {s.started[Len(s.started)]}
       /\ s.promise = [state |-> "rejected",
                       value |-> s.tasks[s.started[Len(s.started)]].val]

\* C27: parallel(tasks, 1) and sequence(tasks) over the same tasks invoke
\* them in the same order (either has invoked a prefix of what the other
\* has), each with at most one in flight and none after a failure; once
\* both have settled they have invoked the same tasks and both are
\* fulfilled with the same results or both rejected with the same failure.
C27_ParallelOneIsSequence ==
  \A r \in Runs :
    LET p == par[r] IN
    /\ OneAtATime(p) /\ OneAtATime(sq)
    /\ IsPrefix(p.started, sq.started) \/ IsPrefix(sq.started, p.started)
    /\ (p.promise.state # "pending" /\ sq.promise.state # "pending") =>
         /\ Observed(p) = Observed(sq)
         /\ p.promise.state = sq.promise.state
         /\ p.promise.state = "rejected" => p.promise.value = sq.promise.value
         /\ p.promise.state = "fulfilled" =>
              /\ Delivered(p) = SeqDelivered(sq)
              /\ Delivered(p) = TaskValues(p)

\* Both calls over a three-task list whose last task fails have rejected
\* with that failure.
C27_Witness ==
  \E r \in Called :
    LET p == par[r] IN
    /\ Len(p.tasks) = 3
    /\ p.task[3] = "rejected"
    /\ p.promise.state = "rejected"
    /\ sq.promise.state = "rejected"
    /\ sq.started = <<1, 2, 3>>

\* ------------------------------------------------------ retry, generic failure
\* C28: a retry call with attempts >= 1 never fails with the generic 'retry
\* failed without an explicit error': when all attempts have failed, what
\* it propagates is the failure of the last attempt.
C28_GenericUnreachable ==
  (rt.pc = "done" /\ rt.attempts >= 1 /\ rt.promise.state = "rejected") =>
    /\ rt.promise.value # GenericRetryError
    /\ rt.promise.value = LastSettled(rt).val

\* ------------------------------------------------------------ no cancellation
\* C29, in every state of a getJSON or postJSON call: the controller is
\* never aborted; where AbortController exists its signal is in the request;
\* the operation the timeout races is fetch's promise, and after the timer
\* has fired a fetch still pending can still complete.
C29_NeverAborted ==
  gj.pc # "init" =>
    /\ ~gj.aborted
    /\ gj.requests[1].init.signal =
         IF gj.abortable THEN Some("controller.signal") ELSE Absent
    /\ gj.t.pc = "called" => gj.t.op = gj.fetch
    /\ (gj.t.timer = "fired" /\ gj.fetch.state = "pending") =>
         /\ gj.promise.state = "rejected"
         /\ ENABLED FetchFulfil
         /\ ENABLED FetchReject

\* C29, in the step in which the timer fires: the raced operation, fetch's
\* promise and the request are as they were.
C29_TimerStep ==
  (gj.t.timer = "armed" /\ gj'.t.timer = "fired") =>
    /\ gj'.t.op = gj.t.op
    /\ gj'.fetch = gj.fetch
    /\ gj'.requests = gj.requests
    /\ gj'.promise.state = "rejected"

C29_OperationUntouched == []C29_NeverAborted /\ [][C29_TimerStep]_vars

\* A getJSON call that timed out, whose fetch went on and completed with a
\* response afterwards.
C29_Witness ==
  /\ gj.api = "getJSON" /\ gj.abortable
  /\ gj.t.events = <<"timer", "op">>
  /\ gj.fetch.state = "fulfilled"
  /\ gj.promise.state = "rejected"

\* ------------------------------------------------------------ concurrent runs
\* C30, in every state of two concurrent runs, for each run: its counter
\* counts its own started and not completed tasks and its own limit bounds
\* it, its next index counts its own started tasks, its result array holds
\* only its own tasks' values at their own positions, and fulfilled it
\* delivers its own tasks' values in its own input order.
C30_OwnState ==
  \A r \in Runs :
    LET s == par[r] IN
    /\ s.active = Len(s.started) - Cardinality(Completed(s))
    /\ Cardinality(InFlight(s)) <= s.limit
    /\ s.index = Len(s.started)
    /\ \A i \in DOMAIN s.results :
         s.results[i] = IF s.task[i] = "fulfilled" THEN s.tasks[i].val ELSE Empty
    /\ s.promise.state = "fulfilled" =>
         (AllFulfilled(s) /\ Delivered(s) = TaskValues(s))
    /\ s.promise.state = "rejected" <=> Failed(s) # {}

\* C30, in every step: a step of one run changes nothing of the other.
C30_Step ==
  \A r \in Runs : \A q \in Runs \ {r} :
    par'[r] # par[r] => par'[q] = par[q]

C30_RunsShareNothing == []C30_OwnState /\ [][C30_Step]_vars

\* Both runs at their own ceilings at once, 1 + 2 tasks in flight in all,
\* the first run having completed a task already.
C30_Witness ==
  /\ DOMAIN par = {1, 2}
  /\ par[1].limit = 1 /\ par[2].limit = 2
  /\ Cardinality(InFlight(par[1])) = 1
  /\ Cardinality(InFlight(par[2])) = 2
  /\ Completed(par[1]) = {1}

====
